---- MODULE Spec2Model ----
(***************************************************************************)
(* A model of app/main.py: a command-line CRUD client for the students     *)
(* table of a PostgreSQL store.  One behaviour is a sequence of process    *)
(* invocations (python app/main.py <cmd> ...) against one persistent       *)
(* store.  Python values are tagged records (PyNone, PyStr, PyInt,         *)
(* PyDate) so that None, the empty string and the text "None" stay apart.  *)
(***************************************************************************)
EXTENDS Integers, Sequences, FiniteSets, TLC

VARIABLES
    students,   \* the committed rows of the students table (a set of rows)
    seq,        \* last value handed out by the student_id sequence
    txn,        \* <<>> or <<table>>: the working table of the open transaction
    env,        \* os.environ restricted to the five PG* names
    args,       \* the argparse namespace of the running invocation
    pc,         \* position of the running invocation in main()
    open,       \* connections this process holds open
    curs,       \* cursors this process holds open
    connects,   \* psycopg2.connect calls made by this invocation
    ret,        \* value returned by the mutating operation (new_id / affected)
    rows,       \* list returned by the last getAllStudents call
    exc,        \* the exception in flight (type "" when none)
    stdout,     \* lines printed to standard output by this invocation
    stderr,     \* lines printed to the error stream by this invocation
    exit_code,  \* -1 while the process runs, else its exit status
    trace,      \* calls, commits and prints of this invocation, in order
    before      \* the committed table when this invocation started

vars == <<students, seq, txn, env, args, pc, open, curs, connects, ret, rows,
          exc, stdout, stderr, exit_code, trace, before>>

----------------------------------------------------------------------------
(* Bounds *)

MaxSeq == 2
MaxRenderRows == 2

----------------------------------------------------------------------------
(* Python values *)

PyNone == [t |-> "None"]
PyStr(s) == [t |-> "str", v |-> s]
PyInt(n) == [t |-> "int", v |-> n]
PyDate(s) == [t |-> "date", v |-> s]

IsNone(x) == x.t = "None"

\* Python truthiness of an Optional[str]: None and "" are falsy.
Truthy(x) == x.t # "None" /\ x.v # ""

\* str(x): decimal digits for an int, ISO text for a date, "None" for None.
str(x) ==
    CASE x.t = "int" -> ToString(x.v)
      [] x.t = "str" -> x.v
      [] x.t = "date" -> x.v
      [] x.t = "None" -> "None"

RECURSIVE Repeat(_, _)
Repeat(c, n) == IF n <= 0 THEN "" ELSE c \o Repeat(c, n - 1)

\* sep.join(xs) for a sequence of strings
RECURSIVE Join(_, _)
Join(xs, sep) ==
    IF xs = <<>> THEN ""
    ELSE IF Len(xs) = 1 THEN xs[1]
    ELSE xs[1] \o sep \o Join(Tail(xs), sep)

Max(a, b) == IF a >= b THEN a ELSE b

NoExc == [type |-> "", msg |-> ""]

----------------------------------------------------------------------------
(* get_conn: configuration resolution and connection *)

required_vars == <<"PGHOST", "PGPORT", "PGUSER", "PGPASSWORD", "PGDATABASE">>

\* Mutant of missing: stops at the first missing name.
missing_first(e) ==
    LET all == SelectSeq(required_vars, LAMBDA v : ~Truthy(e[v]))
    IN IF all = <<>> THEN <<>> ELSE <<Head(all)>>

\* [v for v in required_vars if not os.getenv(v)]
missing(e) == SelectSeq(required_vars, LAMBDA v : ~Truthy(e[v]))

\* int(s) over the port texts of the model: raises ValueError unless the text
\* is a decimal literal.
IntLiterals == {"5432"}
int_raises(s) == s \notin IntLiterals

\* get_conn() under environment e, with the store accepting connections or
\* not (up).  Yields the exception raised (type "" for none), the number of
\* psycopg2.connect calls made and the number of connections opened.
get_conn(e, up) ==
    IF missing(e) # <<>>
    THEN [exc |-> [type |-> "RuntimeError",
                   msg |-> "Missing env vars: " \o Join(missing(e), ", ")
                           \o ". Set them in your environment or app/.env"],
          connects |-> 0, opened |-> 0]
    ELSE IF int_raises(e["PGPORT"].v)
    THEN [exc |-> [type |-> "ValueError",
                   msg |-> "invalid literal for int() with base 10"],
          connects |-> 0, opened |-> 0]
    ELSE IF ~up
    THEN [exc |-> [type |-> "OperationalError",
                   msg |-> "could not connect to server"],
          connects |-> 1, opened |-> 0]
    ELSE [exc |-> NoExc, connects |-> 1, opened |-> 1]

----------------------------------------------------------------------------
(* print_table *)

\* A Python dict: its keys in insertion order and its values.
Dict(ks, val) == [keys |-> ks, val |-> val]

\* len(str(r[h])) if r[h] is not None else 0
cell_width(x) == IF IsNone(x) THEN 0 ELSE Len(str(x))

\* Mutant of cell_text: str(r[h]) without the None test.
cell_text_str(x) == str(x)

\* str(r[h]) if r[h] is not None else ''
cell_text(x) == IF IsNone(x) THEN "" ELSE str(x)

\* f"{s:<{w}}": left-justify, pad with spaces to at least w
ljust(s, w) == s \o Repeat(" ", w - Len(s))

\* widths[h] after the loop over the first k rows
RECURSIVE width_after(_, _, _)
width_after(rs, h, k) ==
    IF k = 0 THEN Len(h)
    ELSE Max(width_after(rs, h, k - 1), cell_width(rs[k].val[h]))

widths(rs, h) == width_after(rs, h, Len(rs))

\* line(char)
line(rs, char) ==
    LET headers == rs[1].keys
    IN "+" \o Join([i \in 1..Len(headers) |->
                      Repeat(char, widths(rs, headers[i]) + 2)], "+") \o "+"

header_row(rs) ==
    LET headers == rs[1].keys
    IN "| " \o Join([i \in 1..Len(headers) |->
                       ljust(headers[i], widths(rs, headers[i]))], " | ") \o " |"

data_row(rs, r) ==
    LET headers == rs[1].keys
    IN "| " \o Join([i \in 1..Len(headers) |->
                       ljust(cell_text(r.val[headers[i]]),
                             widths(rs, headers[i]))], " | ") \o " |"

\* The lines print_table(rows) prints, in order.
print_table(rs) ==
    IF rs = <<>> THEN <<"(no rows)">>
    ELSE <<line(rs, "="), header_row(rs), line(rs, "=")>>
         \o [k \in 1..Len(rs) |-> data_row(rs, rs[k])]
         \o <<line(rs, "=")>>

----------------------------------------------------------------------------
(* The store: the students table and its constraints *)

Columns == <<"student_id", "first_name", "last_name", "email", "enrollment_date">>

CalendarDates == {"2023-09-03"}

\* The cast of a bound parameter to the date column: NULL stays NULL, a
\* calendar date is accepted, any other text is rejected.
date_cast_fails(d) == d.t = "str" /\ d.v \notin CalendarDates
date_cast(d) == IF IsNone(d) THEN PyNone ELSE PyDate(d.v)

\* The unique constraint on email: would a row `id` holding email e collide?
email_taken(table, e, id) ==
    \E r \in table : r.email = e /\ r.student_id # id

UniqueViolation ==
    [type |-> "UniqueViolation",
     msg |-> "duplicate key value violates unique constraint"]
InvalidDate ==
    [type |-> "InvalidDatetimeFormat",
     msg |-> "invalid input syntax for type date"]
ConnectionLost ==
    [type |-> "OperationalError",
     msg |-> "server closed the connection unexpectedly"]

----------------------------------------------------------------------------
(* The SQL statements of the four data access operations *)

\* Mutant of InsertStatement: ... ON CONFLICT (email) DO UPDATE SET
\* first_name, last_name, enrollment_date ... RETURNING student_id
InsertStatementUpsert(table, s, first, last, email, date) ==
    IF date_cast_fails(date)
    THEN [exc |-> InvalidDate, table |-> table, seq |-> s, result |-> PyNone]
    ELSE IF email_taken(table, email, s + 1)
    THEN LET old == CHOOSE r \in table : r.email = email
         IN [exc |-> NoExc,
             table |-> (table \ {old})
                       \cup {[old EXCEPT !.first_name = first,
                                         !.last_name = last,
                                         !.enrollment_date = date_cast(date)]},
             seq |-> s + 1, result |-> PyInt(old.student_id)]
    ELSE [exc |-> NoExc,
          table |-> table \cup {[student_id |-> s + 1, first_name |-> first,
                                 last_name |-> last, email |-> email,
                                 enrollment_date |-> date_cast(date)]},
          seq |-> s + 1, result |-> PyInt(s + 1)]

\* INSERT INTO students (first_name, last_name, email, enrollment_date)
\* VALUES (%s, %s, %s, %s) RETURNING student_id;
\* The sequence value drawn for a row that then violates the unique
\* constraint is not given back.
InsertStatement(table, s, first, last, email, date) ==
    IF date_cast_fails(date)
    THEN [exc |-> InvalidDate, table |-> table, seq |-> s, result |-> PyNone]
    ELSE IF email_taken(table, email, s + 1)
    THEN [exc |-> UniqueViolation, table |-> table, seq |-> s + 1,
          result |-> PyNone]
    ELSE [exc |-> NoExc,
          table |-> table \cup {[student_id |-> s + 1, first_name |-> first,
                                 last_name |-> last, email |-> email,
                                 enrollment_date |-> date_cast(date)]},
          seq |-> s + 1, result |-> PyInt(s + 1)]

\* Mutant of UpdateStatement: the WHERE clause is missing.
UpdateStatementNoWhere(table, s, new_email, student_id) ==
    IF Cardinality(table) > 1
    THEN [exc |-> UniqueViolation, table |-> table, seq |-> s,
          result |-> PyNone]
    ELSE [exc |-> NoExc,
          table |-> {[r EXCEPT !.email = new_email] : r \in table},
          seq |-> s, result |-> PyInt(Cardinality(table))]

\* UPDATE students SET email = %s WHERE student_id = %s;  (cur.rowcount)
UpdateStatement(table, s, new_email, student_id) ==
    LET hit == {r \in table : r.student_id = student_id}
    IN IF \E r \in hit : email_taken(table, new_email, r.student_id)
       THEN [exc |-> UniqueViolation, table |-> table, seq |-> s,
             result |-> PyNone]
       ELSE [exc |-> NoExc,
             table |-> (table \ hit)
                       \cup {[r EXCEPT !.email = new_email] : r \in hit},
             seq |-> s, result |-> PyInt(Cardinality(hit))]

\* Mutant of DeleteStatement: the WHERE clause is missing.
DeleteStatementNoWhere(table, s, student_id) ==
    [exc |-> NoExc, table |-> {}, seq |-> s,
     result |-> PyInt(Cardinality(table))]

\* DELETE FROM students WHERE student_id = %s;  (cur.rowcount)
DeleteStatement(table, s, student_id) ==
    LET hit == {r \in table : r.student_id = student_id}
    IN [exc |-> NoExc, table |-> table \ hit, seq |-> s,
        result |-> PyInt(Cardinality(hit))]

\* ... ORDER BY student_id
RECURSIVE OrderByStudentId(_)
OrderByStudentId(table) ==
    IF table = {} THEN <<>>
    ELSE LET m == CHOOSE r \in table :
                     \A q \in table : r.student_id <= q.student_id
         IN <<m>> \o OrderByStudentId(table \ {m})

\* dict(r) of a RealDictCursor row: the selected columns, in select order
RowDict(r) ==
    Dict(Columns, [student_id |-> PyInt(r.student_id),
                   first_name |-> PyStr(r.first_name),
                   last_name |-> PyStr(r.last_name),
                   email |-> PyStr(r.email),
                   enrollment_date |-> r.enrollment_date])

\* Mutant of SelectStatement: ORDER BY student_id DESC.
SelectStatementDesc(table) ==
    LET sorted == OrderByStudentId(table)
        n == Len(sorted)
    IN [k \in 1..n |-> RowDict(sorted[n + 1 - k])]

\* SELECT student_id, first_name, last_name, email, enrollment_date
\* FROM students ORDER BY student_id;  then [dict(r) for r in rows]
SelectStatement(table) ==
    LET sorted == OrderByStudentId(table)
    IN [k \in 1..Len(sorted) |-> RowDict(sorted[k])]

----------------------------------------------------------------------------
(* Inputs *)

Set(v) == PyStr(v)
EnvAllSet ==
    [PGHOST |-> Set("localhost"), PGPORT |-> Set("5432"),
     PGUSER |-> Set("postgres"), PGPASSWORD |-> Set("secret"),
     PGDATABASE |-> Set("school")]

\* Environments of the CLI runs: complete, one value unset, one value empty.
EnvSamples ==
    {EnvAllSet, [EnvAllSet EXCEPT !.PGPASSWORD = PyNone],
     [EnvAllSet EXCEPT !.PGHOST = Set("")]}

\* Every environment: each value unset, empty or set; the port set to a
\* decimal literal or to other text.
AllEnvs ==
    {[PGHOST |-> h, PGPORT |-> p, PGUSER |-> u, PGPASSWORD |-> w,
      PGDATABASE |-> d] :
        h \in {PyNone, Set(""), Set("localhost")},
        p \in {PyNone, Set(""), Set("5432"), Set("abc")},
        u \in {PyNone, Set(""), Set("postgres")},
        w \in {PyNone, Set(""), Set("secret")},
        d \in {PyNone, Set(""), Set("school")}}

FirstNames == {"", "Ada"}
LastNames == {"", "Lovelace"}
Emails == {"", "ada@example.com", "al@example.com"}
DateArgs == {PyNone, PyStr("2023-09-03"), PyStr("2023-13-45")}
Ids == 1..MaxSeq

NoArgs == [cmd |-> "get-all", first |-> "", last |-> "", email |-> "",
           date |-> PyNone, id |-> 0]

\* The namespaces parser.parse_args() can return.
Commands ==
    {NoArgs}
    \cup {[NoArgs EXCEPT !.cmd = "add", !.first = f, !.last = l, !.email = e,
                         !.date = d] :
            f \in FirstNames, l \in LastNames, e \in Emails, d \in DateArgs}
    \cup {[NoArgs EXCEPT !.cmd = "update-email", !.id = i, !.email = e] :
            i \in Ids, e \in Emails}
    \cup {[NoArgs EXCEPT !.cmd = "delete", !.id = i] : i \in Ids}

\* The data access operation a subcommand dispatches to.
OpOf(cmd) ==
    CASE cmd = "get-all" -> "getAllStudents"
      [] cmd = "add" -> "addStudent"
      [] cmd = "update-email" -> "updateStudentEmail"
      [] cmd = "delete" -> "deleteStudent"

----------------------------------------------------------------------------
(* main: one invocation of the command line *)

\* A fresh process: nothing open, nothing printed.
Fresh ==
    /\ txn = <<>> /\ open = 0 /\ curs = 0 /\ connects = 0
    /\ ret = PyNone /\ rows = <<>> /\ exc = NoExc
    /\ stdout = <<>> /\ stderr = <<>> /\ exit_code = -1 /\ trace = <<>>

Init ==
    /\ students = {} /\ seq = 0 /\ before = {}
    /\ env = EnvAllSet /\ args = NoArgs /\ pc = "start"
    /\ Fresh

\* args = parser.parse_args(): a new process starts on the store as the
\* previous one left it.
Invoke ==
    /\ pc = "start"
    /\ \E e \in EnvSamples, a \in Commands :
          /\ a.cmd = "add" => seq < MaxSeq
          /\ env' = e /\ args' = a
    /\ pc' = "dispatch"
    /\ before' = students
    /\ txn' = <<>> /\ open' = 0 /\ curs' = 0 /\ connects' = 0
    /\ ret' = PyNone /\ rows' = <<>> /\ exc' = NoExc
    /\ stdout' = <<>> /\ stderr' = <<>> /\ exit_code' = -1 /\ trace' = <<>>
    /\ UNCHANGED <<students, seq>>

\* with get_conn() as conn: of addStudent, updateStudentEmail, deleteStudent
MutConnect ==
    /\ pc = "dispatch" /\ args.cmd # "get-all"
    /\ \E up \in BOOLEAN :
          LET g == get_conn(env, up)
              fn == OpOf(args.cmd)
          IN /\ connects' = connects + g.connects
             /\ open' = open + g.opened
             /\ exc' = g.exc
             /\ IF g.exc = NoExc
                THEN /\ pc' = "mut_conn"
                     /\ trace' = trace \o <<"call:" \o fn>>
                ELSE /\ pc' = "raised"
                     /\ trace' = trace \o <<"call:" \o fn, "raise:" \o fn>>
    /\ UNCHANGED <<students, seq, txn, env, args, curs, ret, rows, stdout,
                   stderr, exit_code, before>>

\* with conn.cursor() as cur: cur.execute(...) of a mutating operation, with
\* statement result r.  An exception leaves both with blocks: the cursor is
\* closed and the connection's __exit__ rolls the transaction back, but does
\* not close the connection, which the traceback keeps referenced.  A lost
\* connection is closed by the driver, there is nothing left to roll back.
Execute(r) ==
    LET fn == OpOf(args.cmd)
    IN /\ seq' = r.seq
       /\ exc' = r.exc
       /\ IF r.exc = NoExc
          THEN /\ txn' = <<r.table>>
               /\ curs' = curs + 1
               /\ ret' = r.result
               /\ open' = open
               /\ pc' = "mut_exec"
               /\ trace' = trace
          ELSE /\ txn' = <<>>
               /\ curs' = curs
               /\ ret' = ret
               /\ pc' = "raised"
               /\ IF r.exc = ConnectionLost
                  THEN /\ open' = open - 1
                       /\ trace' = trace \o <<"raise:" \o fn>>
                  ELSE /\ open' = open
                       /\ trace' = trace \o <<"rollback:" \o fn,
                                              "raise:" \o fn>>
       /\ UNCHANGED <<students, env, args, connects, rows, stdout, stderr,
                      exit_code, before>>

\* The statement as the store answers it, or the connection lost under it.
Answer(r, link) ==
    IF link THEN r
    ELSE [exc |-> ConnectionLost, table |-> students, seq |-> seq,
          result |-> PyNone]

AddExecute ==
    /\ pc = "mut_conn" /\ args.cmd = "add"
    /\ \E link \in BOOLEAN :
          Execute(Answer(InsertStatement(students, seq, args.first, args.last,
                                         args.email, args.date), link))

UpdateExecute ==
    /\ pc = "mut_conn" /\ args.cmd = "update-email"
    /\ \E link \in BOOLEAN :
          Execute(Answer(UpdateStatement(students, seq, args.email, args.id),
                         link))

DeleteExecute ==
    /\ pc = "mut_conn" /\ args.cmd = "delete"
    /\ \E link \in BOOLEAN :
          Execute(Answer(DeleteStatement(students, seq, args.id), link))

\* conn.commit(); return: the cursor's with block closes the cursor, the
\* connection's with block commits again (nothing is pending) and leaves the
\* connection open; the returning frame drops the last reference to it and
\* the reference-counting collector closes it.
MutCommit ==
    /\ pc = "mut_exec"
    /\ students' = txn[1]
    /\ txn' = <<>>
    /\ curs' = curs - 1
    /\ open' = open - 1
    /\ pc' = "mut_done"
    /\ trace' = trace \o <<"commit:" \o OpOf(args.cmd),
                           "return:" \o OpOf(args.cmd)>>
    /\ UNCHANGED <<seq, env, args, connects, ret, rows, exc, stdout, stderr,
                   exit_code, before>>

\* Mutant of PrintStatus: the status print is missing.
PrintStatusMissing ==
    /\ pc = "mut_done"
    /\ pc' = "status"
    /\ UNCHANGED <<students, seq, txn, env, args, open, curs, connects, ret,
                   rows, exc, stdout, stderr, exit_code, trace, before>>

\* print(f"Inserted student_id={new_id}") / "Rows updated: " / "Rows deleted: "
status_line(cmd, r) ==
    CASE cmd = "add" -> "Inserted student_id=" \o str(r)
      [] cmd = "update-email" -> "Rows updated: " \o str(r)
      [] cmd = "delete" -> "Rows deleted: " \o str(r)

PrintStatus ==
    /\ pc = "mut_done"
    /\ stdout' = Append(stdout, status_line(args.cmd, ret))
    /\ pc' = "status"
    /\ trace' = Append(trace, "print:status")
    /\ UNCHANGED <<students, seq, txn, env, args, open, curs, connects, ret,
                   rows, exc, stderr, exit_code, before>>

\* rows = getAllStudents(): with get_conn() as conn
ListConnect ==
    /\ \/ pc = "dispatch" /\ args.cmd = "get-all"
       \/ pc = "status"
    /\ \E up \in BOOLEAN :
          LET g == get_conn(env, up)
          IN /\ connects' = connects + g.connects
             /\ open' = open + g.opened
             /\ exc' = g.exc
             /\ IF g.exc = NoExc
                THEN /\ pc' = "list_conn"
                     /\ trace' = trace \o <<"call:getAllStudents">>
                ELSE /\ pc' = "raised"
                     /\ trace' = trace \o <<"call:getAllStudents",
                                            "raise:getAllStudents">>
    /\ UNCHANGED <<students, seq, txn, env, args, curs, ret, rows, stdout,
                   stderr, exit_code, before>>

\* getAllStudents: execute, fetchall, return [dict(r) for r in rows].  The
\* with blocks close the cursor and commit; the returning frame drops the
\* last reference to the connection, which closes it.  A lost connection is
\* closed by the driver.
ListFetch ==
    /\ pc = "list_conn"
    /\ \E link \in BOOLEAN :
          IF link
          THEN /\ rows' = SelectStatement(students)
               /\ open' = open - 1
               /\ exc' = exc
               /\ pc' = "listed"
               /\ trace' = trace \o <<"return:getAllStudents">>
          ELSE /\ rows' = rows
               /\ open' = open - 1
               /\ exc' = ConnectionLost
               /\ pc' = "raised"
               /\ trace' = trace \o <<"raise:getAllStudents">>
    /\ UNCHANGED <<students, seq, txn, env, args, curs, connects, ret, stdout,
                   stderr, exit_code, before>>

\* print_table(rows)
Render ==
    /\ pc = "listed"
    /\ stdout' = stdout \o print_table(rows)
    /\ pc' = "rendered"
    /\ trace' = Append(trace, "print:table")
    /\ UNCHANGED <<students, seq, txn, env, args, open, curs, connects, ret,
                   rows, exc, stderr, exit_code, before>>

\* main returns: the process exits with status 0
Return ==
    /\ pc = "rendered"
    /\ pc' = "exit"
    /\ exit_code' = 0
    /\ UNCHANGED <<students, seq, txn, env, args, open, curs, connects, ret,
                   rows, exc, stdout, stderr, trace, before>>

\* Mutant of HandleError: the error is printed but sys.exit(1) is missing.
HandleErrorNoExit ==
    /\ pc = "raised"
    /\ stderr' = Append(stderr, "ERROR: " \o exc.msg)
    /\ pc' = "exit"
    /\ exit_code' = 0
    /\ trace' = Append(trace, "print:error")
    /\ UNCHANGED <<students, seq, txn, env, args, open, curs, connects, ret,
                   rows, exc, stdout, before>>

\* except Exception as e: print(f"ERROR: {e}", file=sys.stderr); sys.exit(1)
HandleError ==
    /\ pc = "raised"
    /\ stderr' = Append(stderr, "ERROR: " \o exc.msg)
    /\ pc' = "exit"
    /\ exit_code' = 1
    /\ trace' = Append(trace, "print:error")
    /\ UNCHANGED <<students, seq, txn, env, args, open, curs, connects, ret,
                   rows, exc, stdout, before>>

\* The exited process is gone: its output, its memory and whatever
\* connection it still held go with it; the store stays.
ProcessExit ==
    /\ pc = "exit"
    /\ pc' = "start"
    /\ env' = EnvAllSet /\ args' = NoArgs
    /\ before' = students
    /\ txn' = <<>> /\ open' = 0 /\ curs' = 0 /\ connects' = 0
    /\ ret' = PyNone /\ rows' = <<>> /\ exc' = NoExc
    /\ stdout' = <<>> /\ stderr' = <<>> /\ exit_code' = -1 /\ trace' = <<>>
    /\ UNCHANGED <<students, seq>>

Next ==
    \/ Invoke
    \/ ProcessExit
    \/ MutConnect
    \/ AddExecute
    \/ UpdateExecute
    \/ DeleteExecute
    \/ MutCommit
    \/ PrintStatus
    \/ ListConnect
    \/ ListFetch
    \/ Render
    \/ Return
    \/ HandleError

Spec == Init /\ [][Next]_vars

----------------------------------------------------------------------------
(* get_conn alone, under every environment *)

InitConn ==
    /\ students = {} /\ seq = 0 /\ before = {}
    /\ env \in AllEnvs /\ args = NoArgs /\ pc = "conn_in"
    /\ Fresh

GetConnCall ==
    /\ pc = "conn_in"
    /\ \E up \in BOOLEAN :
          LET g == get_conn(env, up)
          IN /\ connects' = connects + g.connects
             /\ open' = open + g.opened
             /\ exc' = g.exc
    /\ pc' = "conn_out"
    /\ UNCHANGED <<students, seq, txn, env, args, curs, ret, rows, stdout,
                   stderr, exit_code, trace, before>>

SpecConn == InitConn /\ [][GetConnCall]_vars

----------------------------------------------------------------------------
(* print_table alone, on bounded lists of records *)

RenderDicts ==
    {Dict(Columns, [student_id |-> i, first_name |-> f,
                    last_name |-> PyStr("Lovelace"), email |-> e,
                    enrollment_date |-> d]) :
        i \in {PyInt(7), PyInt(12)},
        f \in {PyStr("Al"), PyStr("Bartholomew")},
        e \in {PyStr("x@y"), PyStr("ada@example.com")},
        d \in {PyNone, PyDate("2023-09-03")}}

RenderInputs == UNION {[1..n -> RenderDicts] : n \in 0..MaxRenderRows}

InitRender ==
    /\ students = {} /\ seq = 0 /\ before = {}
    /\ env = EnvAllSet /\ args = NoArgs /\ pc = "render_in"
    /\ txn = <<>> /\ open = 0 /\ curs = 0 /\ connects = 0
    /\ ret = PyNone /\ rows \in RenderInputs /\ exc = NoExc
    /\ stdout = <<>> /\ stderr = <<>> /\ exit_code = -1 /\ trace = <<>>

PrintTableCall ==
    /\ pc = "render_in"
    /\ stdout' = stdout \o print_table(rows)
    /\ pc' = "render_out"
    /\ UNCHANGED <<students, seq, txn, env, args, open, curs, connects, ret,
                   rows, exc, stderr, exit_code, trace, before>>

SpecRender == InitRender /\ [][PrintTableCall]_vars

----------------------------------------------------------------------------
(* Properties *)

AllOps == {"getAllStudents", "addStudent", "updateStudentEmail", "deleteStudent"}
Mutating == args.cmd # "get-all"

InTrace(e) == \E i \in DOMAIN trace : trace[i] = e
Pos(e) == IF InTrace(e) THEN CHOOSE i \in DOMAIN trace : trace[i] = e ELSE 0
Raised(f) == InTrace("raise:" \o f)
Returned(f) == InTrace("return:" \o f)
AnyRaised == \E f \in AllOps : Raised(f)

\* C1: every error raised by get_conn or by a data access operation ends the
\* invocation with "ERROR: <message>" on the error stream and exit status 1;
\* an invocation in which nothing is raised exits with status 0 and an empty
\* error stream; no operation is called a second time and nothing but the
\* error print follows a raise.
C1_ErrorsCaughtExitOne ==
    /\ pc # "exit" => exit_code = -1
    /\ (pc = "exit" /\ AnyRaised) =>
          /\ exit_code = 1
          /\ exc # NoExc
          /\ stderr = <<"ERROR: " \o exc.msg>>
    /\ (pc = "exit" /\ ~AnyRaised) =>
          /\ exit_code = 0
          /\ exc = NoExc
          /\ stderr = <<>>
    /\ pc = "raised" <=> (AnyRaised /\ ~InTrace("print:error"))
    /\ \A f \in AllOps :
          Cardinality({i \in DOMAIN trace : trace[i] = "call:" \o f}) <= 1
    /\ \A f \in AllOps : \A i \in DOMAIN trace :
          trace[i] = "raise:" \o f =>
             \A j \in DOMAIN trace : j > i => trace[j] = "print:error"

C1_Witness ==
    /\ pc = "exit" /\ exit_code = 1
    /\ exc.type = "UniqueViolation"
    /\ Raised("addStudent")

\* C3: a mutating command commits its mutation, then prints its status line,
\* then calls List All, then renders the table; a mutation that raises
\* prints nothing to standard output and List All is never called; get-all
\* lists and renders with no status line.
C3_DispatchOrder ==
    LET fn == OpOf(args.cmd)
    IN /\ InTrace("print:status") =>
             /\ Mutating
             /\ 0 < Pos("commit:" \o fn)
             /\ Pos("commit:" \o fn) < Pos("print:status")
             /\ txn = <<>>
             /\ stdout[1] = status_line(args.cmd, ret)
       /\ (Mutating /\ InTrace("call:getAllStudents")) =>
             /\ 0 < Pos("print:status")
             /\ Pos("print:status") < Pos("call:getAllStudents")
       /\ InTrace("print:table") =>
             /\ 0 < Pos("call:getAllStudents")
             /\ Pos("call:getAllStudents") < Pos("print:table")
       /\ (Mutating /\ Raised(fn)) =>
             /\ stdout = <<>>
             /\ ~InTrace("print:status")
             /\ ~InTrace("print:table")
             /\ ~InTrace("call:getAllStudents")
       /\ (Mutating /\ pc = "exit" /\ exit_code = 0) =>
             /\ trace = <<"call:" \o fn, "commit:" \o fn, "return:" \o fn,
                          "print:status", "call:getAllStudents",
                          "return:getAllStudents", "print:table">>
             /\ stdout = <<status_line(args.cmd, ret)>> \o print_table(rows)
       /\ (~Mutating /\ pc = "exit" /\ exit_code = 0) =>
             /\ trace = <<"call:getAllStudents", "return:getAllStudents",
                          "print:table">>
             /\ stdout = print_table(rows)

C3_Witness ==
    /\ pc = "exit" /\ exit_code = 0 /\ args.cmd = "add"
    /\ Len(stdout) > 1
    /\ stdout[1] = "Inserted student_id=2"

\* C4: an insert or an email update that would give two records the same
\* email fails with the store's unique violation and leaves the table as it
\* was; no two records of the table ever share an email.
C4_EmailUnique ==
    LET clash == \E r \in before :
                    r.email = args.email /\ r.student_id # args.id
        target == \E r \in before : r.student_id = args.id
        would == \/ args.cmd = "add" /\ clash
                 \/ args.cmd = "update-email" /\ target /\ clash
    IN /\ \A r1, r2 \in students : r1.email = r2.email => r1 = r2
       /\ would => /\ students = before
                   /\ pc \notin {"mut_exec", "mut_done"}
                   /\ ~Returned(OpOf(args.cmd))
       /\ exc = UniqueViolation => /\ would
                                   /\ students = before
                                   /\ pc \in {"raised", "exit"}
       /\ Raised(OpOf(args.cmd)) => students = before

C4_Witness ==
    /\ pc = "exit" /\ args.cmd = "add"
    /\ exc = UniqueViolation
    /\ \E r \in students : r.email = args.email

\* C5: updateStudentEmail on an id no record has returns 0 and leaves the
\* table as it was; on an id a record has it returns 1, that record carries
\* the new email with every other column unchanged, every other record is
\* unchanged, and the following List All shows the record with the new email.
C5_UpdateEmail ==
    (args.cmd = "update-email" /\ Returned("updateStudentEmail")) =>
        LET hit == {r \in before : r.student_id = args.id}
        IN /\ hit = {} => (ret = PyInt(0) /\ students = before)
           /\ hit # {} =>
                 /\ ret = PyInt(1)
                 /\ Cardinality(students) = Cardinality(before)
                 /\ \A r \in before :
                       IF r.student_id = args.id
                       THEN [student_id |-> r.student_id,
                             first_name |-> r.first_name,
                             last_name |-> r.last_name,
                             email |-> args.email,
                             enrollment_date |-> r.enrollment_date]
                            \in students
                       ELSE r \in students
                 /\ Returned("getAllStudents") =>
                       \E k \in DOMAIN rows :
                          /\ rows[k].val.student_id = PyInt(args.id)
                          /\ rows[k].val.email = PyStr(args.email)

C5_Witness ==
    /\ pc = "exit" /\ exit_code = 0 /\ args.cmd = "update-email"
    /\ ret = PyInt(1)
    /\ students # before
    /\ Cardinality(students) = 2

\* C6: deleteStudent on an id no record has returns 0 and leaves the table
\* as it was; on an id a record has it returns 1 and removes exactly that
\* record; the count returned is 0 or 1.
C6_Delete ==
    (args.cmd = "delete" /\ Returned("deleteStudent")) =>
        LET hit == {r \in before : r.student_id = args.id}
        IN /\ ret \in {PyInt(0), PyInt(1)}
           /\ hit = {} => (ret = PyInt(0) /\ students = before)
           /\ hit # {} =>
                 /\ ret = PyInt(1)
                 /\ Cardinality(students) = Cardinality(before) - 1
                 /\ \A r \in before :
                       r \in students <=> r.student_id # args.id
                 /\ students \subseteq before

C6_Witness ==
    /\ pc = "exit" /\ exit_code = 0 /\ args.cmd = "delete"
    /\ ret = PyInt(1)
    /\ Cardinality(before) = 2 /\ Cardinality(students) = 1

\* C7: List All returns every record of the table exactly once, in strictly
\* ascending student_id order, and the rendered table shows one row per
\* record in that same order.
C7_ListAscending ==
    Returned("getAllStudents") =>
        /\ Len(rows) = Cardinality(students)
        /\ {rows[k].val.student_id.v : k \in DOMAIN rows}
              = {r.student_id : r \in students}
        /\ \A k \in DOMAIN rows : \E r \in students :
              /\ rows[k].val.student_id = PyInt(r.student_id)
              /\ rows[k].val.first_name = PyStr(r.first_name)
              /\ rows[k].val.last_name = PyStr(r.last_name)
              /\ rows[k].val.email = PyStr(r.email)
              /\ rows[k].val.enrollment_date = r.enrollment_date
        /\ \A j, k \in DOMAIN rows :
              j < k => rows[j].val.student_id.v < rows[k].val.student_id.v
        /\ (InTrace("print:table") /\ rows # <<>>) =>
              LET off == Len(stdout) - Len(rows) - 1
              IN \A k \in DOMAIN rows :
                    stdout[off + k] = data_row(rows, rows[k])

C7_Witness ==
    /\ pc = "exit" /\ exit_code = 0 /\ args.cmd = "update-email"
    /\ Len(rows) = 2
    /\ students # before
    /\ rows[1].val.student_id = PyInt(1)
    /\ rows[2].val.student_id = PyInt(2)

\* C8 (as claimed): when a data access operation has returned or raised, the
\* connection and the cursor it acquired are closed; never are two
\* connections open, and none is open when the process exits.
C8_ConnectionsClosed ==
    /\ open <= 1
    /\ pc \in {"raised", "mut_done", "status", "listed", "rendered", "exit"}
          => (open = 0 /\ curs = 0)

\* C9 (as claimed): every record of the table has a non-empty first_name,
\* last_name and email.
C9_NonEmptyFields ==
    \A r \in students :
        r.first_name # "" /\ r.last_name # "" /\ r.email # ""

NamesIn(S) == SelectSeq(required_vars, LAMBDA v : v \in S)
MissingError(S) ==
    [type |-> "RuntimeError",
     msg |-> "Missing env vars: " \o Join(NamesIn(S), ", ")
             \o ". Set them in your environment or app/.env"]
Unset == {v \in DOMAIN env : env[v] = PyNone}
UnsetOrEmpty == {v \in DOMAIN env : env[v] \in {PyNone, PyStr("")}}

\* C2 (as claimed): when some of the five values are absent, get_conn fails
\* with one error naming exactly the absent ones, with no store contact;
\* when none is absent it opens exactly one connection.
C2_AsClaimed ==
    pc = "conn_out" =>
        IF Unset # {}
        THEN /\ exc = MissingError(Unset)
             /\ connects = 0 /\ open = 0 /\ students = before
        ELSE open = 1

\* C2 (amended): when some of the five values are absent or empty, get_conn
\* fails with one error naming exactly those, in the order PGHOST, PGPORT,
\* PGUSER, PGPASSWORD, PGDATABASE, with no store contact; when none is, it
\* makes at most one connection attempt, makes none if PGPORT is not an
\* integer literal, and has exactly one connection open if and only if it
\* returns without an error.
C2_MissingNamed ==
    pc = "conn_out" =>
        IF UnsetOrEmpty # {}
        THEN /\ exc = MissingError(UnsetOrEmpty)
             /\ connects = 0 /\ open = 0 /\ students = before
        ELSE /\ connects <= 1 /\ open <= connects
             /\ exc = NoExc <=> open = 1
             /\ env.PGPORT.v # "5432" =>
                   (exc.type = "ValueError" /\ connects = 0)
             /\ env.PGPORT.v = "5432" => connects = 1

C2_Witness ==
    /\ pc = "conn_out"
    /\ env.PGHOST = PyNone /\ env.PGUSER = PyStr("")
    /\ env.PGDATABASE = PyNone /\ env.PGPORT = PyStr("5432")
    /\ exc.type = "RuntimeError"

RECURSIVE SumSeq(_)
SumSeq(xs) == IF xs = <<>> THEN 0 ELSE Head(xs) + SumSeq(Tail(xs))

\* The least width that fits the header and every non-null value of column h.
FitWidth(rs, h) ==
    LET lens == {Len(h)} \cup {Len(str(rs[k].val[h])) :
                                 k \in {j \in DOMAIN rs : rs[j].val[h] # PyNone}}
    IN CHOOSE m \in lens : \A n \in lens : n <= m

\* C10: for a non-empty list of records, print_table prints n + 4 lines of
\* one common length; each column is as wide as its header or its longest
\* non-null value, whichever is longer; the three borders are '=' segments
\* of width + 2 between '+'; every cell is left-justified and padded to the
\* width, a null value being an empty cell.  An empty list prints "(no rows)".
C10_TableLayout ==
    pc = "render_out" =>
        IF rows = <<>> THEN stdout = <<"(no rows)">>
        ELSE LET hs == rows[1].keys
                 n == Len(rows)
                 W(i) == FitWidth(rows, hs[i])
                 total == 1 + SumSeq([i \in DOMAIN hs |-> W(i) + 3])
                 border == "+" \o Join([i \in DOMAIN hs |->
                                          Repeat("=", W(i) + 2)], "+") \o "+"
                 Cell(x, w) == IF x = PyNone THEN Repeat(" ", w)
                               ELSE str(x) \o Repeat(" ", w - Len(str(x)))
             IN /\ Len(stdout) = n + 4
                /\ \A i \in DOMAIN stdout : Len(stdout[i]) = total
                /\ stdout[1] = border
                /\ stdout[3] = border
                /\ stdout[n + 4] = border
                /\ stdout[2] = "| " \o Join([i \in DOMAIN hs |->
                                   Cell(PyStr(hs[i]), W(i))], " | ") \o " |"
                /\ \A k \in 1..n :
                      stdout[3 + k] = "| " \o Join([i \in DOMAIN hs |->
                             Cell(rows[k].val[hs[i]], W(i))], " | ") \o " |"

C10_Witness ==
    /\ pc = "render_out" /\ Len(rows) = 2 /\ Len(stdout) = 6
    /\ rows[1].val.enrollment_date = PyNone
    /\ rows[1].val.first_name = PyStr("Al")
    /\ rows[2].val.first_name = PyStr("Bartholomew")
    /\ rows[2].val.student_id = PyInt(12)

====
